---- MODULE Spec2Model ----
(***************************************************************************)
(* A model of the hemoglobin library (src/src/lib.rs): the Base and        *)
(* Sequence types, the 2-bit packing codec (Sequence::from_u64,            *)
(* Sequence::subsequence_as_u64), count_bases, reverse_complement and the  *)
(* k-mer locator find_kmers.                                               *)
(*                                                                         *)
(* Every function of the library is pure, so the state machine is a       *)
(* caller: from "idle" it calls one function on inputs drawn from bounded  *)
(* sets, the state records the call and its outcome, and Finish goes back  *)
(* to "idle".  Three actions call a function on the outcome of the         *)
(* previous call (unpack what was packed, reverse-complement a second      *)
(* time, search again in the other mode).                                  *)
(*                                                                         *)
(* Machine integers.  A u64 word is a tuple of 64 bits, most significant   *)
(* first, and the shifts are shifts of that tuple.  A usize is an integer  *)
(* of UsizeBits bits: the target's is 64 bits wide, which the model scales *)
(* down so that a wrapped loop bound can be walked.  Arithmetic on usize   *)
(* that leaves the range panics when the crate is built with overflow      *)
(* checks (debug profile) and wraps when it is built without them (release *)
(* profile); the variable overflow_checks is the profile of the build.     *)
(***************************************************************************)
EXTENDS Integers, Sequences, FiniteSets, TLC

\* ------------------------------------------------------------------ bounds

\* Width of the modelled usize, in bits.
UsizeBits == 7
\* Longest haystack enumerated exhaustively for find_kmers.
MaxHay == 3
\* Longest k-mer enumerated exhaustively for find_kmers.
MaxKmer == 2
\* Longest sequence enumerated exhaustively for the Sequence methods.
MaxLen == 3

\* ------------------------------------------------------------- base types

RECURSIVE Pow2(_)
Pow2(n) == IF n = 0 THEN 1 ELSE 2 * Pow2(n - 1)

UsizeModulus == Pow2(UsizeBits)
UsizeMax == UsizeModulus - 1

\* pub enum Base { A = 0, C = 1, G = 2, T = 3 }
Base == {"A", "C", "G", "T"}

\* `base as u64`: the discriminant of the enum.
BaseAsCode(b) ==
  CASE b = "A" -> 0
    [] b = "C" -> 1
    [] b = "G" -> 2
    [] b = "T" -> 3

\* complement with the arm of G mistyped (G => G).
complement_slip(b) ==
  CASE b = "A" -> "T"
    [] b = "T" -> "A"
    [] b = "C" -> "G"
    [] b = "G" -> "G"

\* Base::complement
complement(b) ==
  CASE b = "A" -> "T"
    [] b = "T" -> "A"
    [] b = "C" -> "G"
    [] b = "G" -> "C"

\* Option<T>: None is the empty tuple, Some(v) the one-element tuple.
None == <<>>
Some(v) == <<v>>

\* The outcome of a call: it returns a value, or the thread panics.
Return(v) == [tag |-> "Return", value |-> v]
Panic(msg) == [tag |-> "Panic", value |-> msg]

\* ------------------------------------------------------- usize arithmetic

\* a - b on usize: a panic under overflow checks, else the wrapped difference.
SubUsize(a, b, checks) ==
  IF a - b >= 0 THEN Return(a - b)
  ELSE IF checks THEN Panic("attempt to subtract with overflow")
  ELSE Return(a - b + UsizeModulus)

\* a + b on usize: a panic under overflow checks, else the wrapped sum.
AddUsize(a, b, checks) ==
  IF a + b <= UsizeMax THEN Return(a + b)
  ELSE IF checks THEN Panic("attempt to add with overflow")
  ELSE Return((a + b) % UsizeModulus)

\* ------------------------------------------------------------- find_kmers

\* ScanEnd without the `+ 1` of the linear bound.
ScanEnd_no_plus_one(sequence, kmer, circular, checks) ==
  IF circular THEN Return(Len(sequence))
  ELSE SubUsize(Len(sequence), Len(kmer), checks)

\* The scan bound `end` of find_kmers.
ScanEnd(sequence, kmer, circular, checks) ==
  IF circular THEN Return(Len(sequence))
  ELSE LET d == SubUsize(Len(sequence), Len(kmer), checks)
       IN  IF d.tag = "Panic" THEN d ELSE AddUsize(d.value, 1, checks)

\* InnerLoop indexing `sequence.0[i + j]`, the `% sequence.0.len()` left out.
RECURSIVE InnerLoop_no_wrap(_, _, _, _, _, _)
InnerLoop_no_wrap(sequence, kmer, i, j, matches, checks) ==
  IF j >= Len(kmer) THEN Return(matches)
  ELSE LET sum == AddUsize(i, j, checks)
       IN  IF sum.tag = "Panic" THEN sum
           ELSE IF sum.value >= Len(sequence) THEN Panic("index out of bounds")
           ELSE InnerLoop_no_wrap(sequence, kmer, i, j + 1,
                                  matches /\ sequence[sum.value + 1] = kmer[j + 1],
                                  checks)

\* The inner loop `for j in 0..kmer.0.len()` from j on: the final value of
\* `matches`, or the panic of the index expression.  It does not stop at the
\* first mismatch.
RECURSIVE InnerLoop(_, _, _, _, _, _)
InnerLoop(sequence, kmer, i, j, matches, checks) ==
  IF j >= Len(kmer) THEN Return(matches)
  ELSE LET sum == AddUsize(i, j, checks)
       IN  IF sum.tag = "Panic" THEN sum
           ELSE IF Len(sequence) = 0
             THEN Panic("attempt to calculate the remainder with a divisor of zero")
           ELSE InnerLoop(sequence, kmer, i, j + 1,
                          matches /\ sequence[(sum.value % Len(sequence)) + 1] = kmer[j + 1],
                          checks)

\* One iteration of the outer loop `for i in 0..end`: the offsets it pushes
\* (i when `matches` is still true, nothing otherwise), or its panic.
OuterStep(sequence, kmer, i, checks) ==
  LET m == InnerLoop(sequence, kmer, i, 0, TRUE, checks)
  IN  IF m.tag = "Panic" THEN m
      ELSE Return(IF m.value THEN <<i>> ELSE <<>>)

\* The iterations lo <= i < hi of the outer loop, run in increasing order: the
\* offsets they push, in push order, or the first panic.  The range is split
\* in two halves run one after the other, which keeps the evaluation shallow.
RECURSIVE OuterLoop(_, _, _, _, _)
OuterLoop(sequence, kmer, lo, hi, checks) ==
  IF lo >= hi THEN Return(<<>>)
  ELSE IF hi = lo + 1 THEN OuterStep(sequence, kmer, lo, checks)
  ELSE LET mid == (lo + hi) \div 2
           first == OuterLoop(sequence, kmer, lo, mid, checks)
       IN  IF first.tag = "Panic" THEN first
           ELSE LET rest == OuterLoop(sequence, kmer, mid, hi, checks)
                IN  IF rest.tag = "Panic" THEN rest
                    ELSE Return(first.value \o rest.value)

\* pub fn find_kmers(sequence, kmer, circular) -> Vec<u64>
find_kmers(sequence, kmer, circular, checks) ==
  LET end == ScanEnd(sequence, kmer, circular, checks)
  IN  IF end.tag = "Panic" THEN end
      ELSE OuterLoop(sequence, kmer, 0, end.value, checks)

\* ---------------------------------------------------------------- u64 words

\* Width of a u64, and the number of 2-bit base codes it holds.
WordBits == 64
MaxBases == 32

\* A u64 is the tuple of its 64 bits, bit 63 first and bit 0 last.
ZeroWord == [k \in 1..WordBits |-> 0]

\* The u64 whose value is the small number c (0 <= c <= 3).
WordOfCode(c) ==
  [k \in 1..WordBits |->
     IF k = WordBits - 1 THEN c \div 2 ELSE IF k = WordBits THEN c % 2 ELSE 0]

\* w << n and w >> n for 0 <= n < 64.
ShlBits(w, n) == [k \in 1..WordBits |-> IF k + n <= WordBits THEN w[k + n] ELSE 0]
ShrBits(w, n) == [k \in 1..WordBits |-> IF k - n >= 1 THEN w[k - n] ELSE 0]

\* The shift operators of u64: an amount of 64 or more panics under overflow
\* checks and is taken modulo 64 without them.
Shl(w, n, checks) ==
  IF n < WordBits THEN Return(ShlBits(w, n))
  ELSE IF checks THEN Panic("attempt to shift left with overflow")
  ELSE Return(ShlBits(w, n % WordBits))

Shr(w, n, checks) ==
  IF n < WordBits THEN Return(ShrBits(w, n))
  ELSE IF checks THEN Panic("attempt to shift right with overflow")
  ELSE Return(ShrBits(w, n % WordBits))

\* a | b
BitOr(a, b) == [k \in 1..WordBits |-> IF a[k] = 1 \/ b[k] = 1 THEN 1 ELSE 0]

\* a * b on u8: a panic under overflow checks, else the wrapped product.
U8Modulus == 256
MulU8(a, b, checks) ==
  IF a * b < U8Modulus THEN Return(a * b)
  ELSE IF checks THEN Panic("attempt to multiply with overflow")
  ELSE Return((a * b) % U8Modulus)

\* a * b on usize.
MulUsize(a, b, checks) ==
  IF a * b <= UsizeMax THEN Return(a * b)
  ELSE IF checks THEN Panic("attempt to multiply with overflow")
  ELSE Return((a * b) % UsizeModulus)

\* Base::from_u64: Some base for the numbers 0..3, None for every other one.
Base_from_u64(num) ==
  IF \E k \in 1..(WordBits - 2) : num[k] = 1 THEN None
  ELSE LET n == 2 * num[WordBits - 1] + num[WordBits]
       IN  CASE n = 0 -> Some("A")
             [] n = 1 -> Some("C")
             [] n = 2 -> Some("G")
             [] n = 3 -> Some("T")

\* ------------------------------------------------------- Sequence::from_u64

\* The expression `Base::from_u64(num << 2*i >> 62).unwrap()` of the loop body.
FromU64Step(num, i, checks) ==
  LET amount == MulU8(2, i, checks)
  IN  IF amount.tag = "Panic" THEN amount
      ELSE LET left == Shl(num, amount.value, checks)
           IN  IF left.tag = "Panic" THEN left
               ELSE LET right == Shr(left.value, 62, checks)
                    IN  IF right.tag = "Panic" THEN right
                        ELSE LET b == Base_from_u64(right.value)
                             IN  IF b = None
                                   THEN Panic("called Option::unwrap() on a None value")
                                   ELSE Return(b[1])

\* The loop `for i in 0..end` from i on, `result` being the bases pushed so far.
RECURSIVE FromU64Loop(_, _, _, _, _)
FromU64Loop(num, end, i, result, checks) ==
  IF i >= end THEN Return(result)
  ELSE LET b == FromU64Step(num, i, checks)
       IN  IF b.tag = "Panic" THEN b
           ELSE FromU64Loop(num, end, i + 1, Append(result, b.value), checks)

Min(a, b) == IF a <= b THEN a ELSE b

\* from_u64 without the clamp of length to 32.
from_u64_unclamped(num, length, checks) ==
  FromU64Loop(num, length, 0, <<>>, checks)

\* pub fn from_u64(num: u64, length: u8) -> Self
from_u64(num, length, checks) ==
  LET end == Min(length, MaxBases)
  IN  FromU64Loop(num, end, 0, <<>>, checks)

\* --------------------------------------------- Sequence::subsequence_as_u64

\* PackStep filling the word from the least significant end (`<< 2*i`).
PackStep_lsb_first(self, start, i, result, checks) ==
  LET idx == AddUsize(start, i, checks)
  IN  IF idx.tag = "Panic" THEN idx
      ELSE IF idx.value >= Len(self) THEN Panic("index out of bounds")
      ELSE LET amount == MulUsize(2, i, checks)
           IN  IF amount.tag = "Panic" THEN amount
               ELSE LET field == Shl(WordOfCode(BaseAsCode(self[idx.value + 1])),
                                     amount.value, checks)
                    IN  IF field.tag = "Panic" THEN field
                        ELSE Return(BitOr(result, field.value))

\* The loop body `result = result | ((self.0[start + i] as u64) << (62 - 2*i))`.
PackStep(self, start, i, result, checks) ==
  LET idx == AddUsize(start, i, checks)
  IN  IF idx.tag = "Panic" THEN idx
      ELSE IF idx.value >= Len(self) THEN Panic("index out of bounds")
      ELSE LET twice == MulUsize(2, i, checks)
           IN  IF twice.tag = "Panic" THEN twice
               ELSE LET amount == SubUsize(62, twice.value, checks)
                    IN  IF amount.tag = "Panic" THEN amount
                        ELSE LET field == Shl(WordOfCode(BaseAsCode(self[idx.value + 1])),
                                              amount.value, checks)
                             IN  IF field.tag = "Panic" THEN field
                                 ELSE Return(BitOr(result, field.value))

\* The loop `for i in 0..length` from i on.
RECURSIVE PackLoop(_, _, _, _, _, _)
PackLoop(self, start, length, i, result, checks) ==
  IF i >= length THEN Return(Some(result))
  ELSE LET r == PackStep(self, start, i, result, checks)
       IN  IF r.tag = "Panic" THEN r
           ELSE PackLoop(self, start, length, i + 1, r.value, checks)

\* pub fn subsequence_as_u64(&self, start: usize, length: usize) -> Option<u64>
\* The test `length > 32 || start + length > self.0.len()` evaluates the sum
\* only when length <= 32.
subsequence_as_u64(self, start, length, checks) ==
  IF length > MaxBases THEN Return(None)
  ELSE LET sum == AddUsize(start, length, checks)
       IN  IF sum.tag = "Panic" THEN sum
           ELSE IF sum.value > Len(self) THEN Return(None)
           ELSE PackLoop(self, start, length, 0, ZeroWord, checks)

\* ----------------------------------------------------- Sequence::count_bases

\* The loop `for base in &self.0` from position k (1-based) on.
RECURSIVE CountLoop(_, _, _)
CountLoop(self, k, result) ==
  IF k > Len(self) THEN result
  ELSE CountLoop(self, k + 1,
         CASE self[k] = "A" -> [result EXCEPT !.A = @ + 1]
           [] self[k] = "C" -> [result EXCEPT !.C = @ + 1]
           [] self[k] = "G" -> [result EXCEPT !.G = @ + 1]
           [] self[k] = "T" -> [result EXCEPT !.T = @ + 1])

\* count_bases with a loop that skips the first base.
count_bases_skip_first(self) ==
  Return(CountLoop(self, 2, [A |-> 0, C |-> 0, G |-> 0, T |-> 0]))

\* pub fn count_bases(&self) -> BaseCount
count_bases(self) == Return(CountLoop(self, 1, [A |-> 0, C |-> 0, G |-> 0, T |-> 0]))

\* ----------------------------------------------- Sequence::reverse_complement

\* The loop `for i in (0..self.0.len()).rev()`, n iterations being left: the
\* next one reads the 0-based index n - 1.
RECURSIVE ReverseLoop(_, _, _)
ReverseLoop(self, n, result) ==
  IF n = 0 THEN result
  ELSE ReverseLoop(self, n - 1, Append(result, complement(self[n])))

\* pub fn reverse_complement(&self) -> Self
reverse_complement(self) == Return(ReverseLoop(self, Len(self), <<>>))

\* ------------------------------------------------------------------ inputs

\* Longest period of the long sequences built by Cycle.
MaxPeriod == 2

\* All sequences of bases of length at most n.
SeqsUpTo(n) == UNION {[1..k -> Base] : k \in 0..n}

\* Sequence::new on a string: the letters A, T, C, G are pushed in order and
\* every other character is skipped.
RECURSIVE new(_)
new(s) ==
  IF s = <<>> THEN <<>>
  ELSE IF Head(s) \in Base THEN <<Head(s)>> \o new(Tail(s))
  ELSE new(Tail(s))

\* The sequences of the tests and documentation examples of the crate.
TestSequence == new(<<"T","A","C","G","A","T","C","T","A","G","T","C","T","A","G","G","A","T","C">>)
TestKmer == new(<<"T","C","T","A">>)
DocSequence == new(<<"A","T","C","G","A","T","C","G">>)
DocKmer == new(<<"A","T","C","G">>)
PackTestSequence == new(<<"T","A","C","G","A","T","C","T","A","G","T">>)

\* The u64 written with the 16 hexadecimal digits h, and the word of the tests.
HexWord(h) ==
  [k \in 1..WordBits |-> (h[((k - 1) \div 4) + 1] \div Pow2(3 - ((k - 1) % 4))) % 2]
TestWord == HexWord(<<11, 10, 5, 14, 5, 0, 0, 0, 0, 0, 0, 0, 0, 0, 0, 0>>)

\* The sequence of length n that repeats the period p.
Cycle(p, n) == [k \in 1..n |-> p[((k - 1) % Len(p)) + 1]]

\* Sequences of 31, 32 and 33 bases: one below, at and one above the capacity
\* of a word.
LongSequences ==
  {Cycle(p, n) : p \in SeqsUpTo(MaxPeriod) \ {<<>>},
                 n \in (MaxBases - 1)..(MaxBases + 1)}

Haystacks == SeqsUpTo(MaxHay) \cup {TestSequence, DocSequence}
\* The k-mers: the short ones, those of the tests, and the runs of one base as
\* long as the k-mer of the tests.
Kmers ==
  SeqsUpTo(MaxKmer) \cup {TestKmer, DocKmer}
    \cup {Cycle(<<b>>, Len(TestKmer)) : b \in Base}
Sequences == SeqsUpTo(MaxLen) \cup LongSequences \cup {TestSequence, PackTestSequence}

\* Values of the usize arguments start and length: the small ones, those of the
\* tests, those around the capacity of a word and the largest ones.
Starts == (0..(MaxLen + 1)) \cup {UsizeMax - 1, UsizeMax}
Lengths ==
  (0..(MaxLen + 1)) \cup {7, 8} \cup ((MaxBases - 1)..(MaxBases + 1)) \cup {UsizeMax}

\* Values of the u8 argument length of from_u64.
Lengths8 ==
  (0..MaxLen) \cup {7, 10, 12, 99} \cup ((MaxBases - 1)..(MaxBases + 1))
    \cup {U8Modulus - 1}

\* Words: every choice of the top 2 * MaxLen bits, the bits below them
\* repeating one 2-bit pattern; and the word of the tests.
Words ==
  {[k \in 1..WordBits |-> IF k <= 2 * MaxLen THEN top[k] ELSE fill[((k - 1) % 2) + 1]] :
     top \in [1..(2 * MaxLen) -> {0, 1}], fill \in [1..2 -> {0, 1}]}
  \cup {TestWord}

\* ------------------------------------------------------------------- state

VARIABLES
  overflow_checks, \* the build: TRUE with overflow checks (debug), FALSE without
  pc,              \* "idle" or "done"
  op,              \* the function called last
  args,            \* its arguments
  out,             \* its outcome
  prev             \* the call before it, when this call continues from it

vars == <<overflow_checks, pc, op, args, out, prev>>

NoCall == [op |-> "none"]
ThisCall == [op |-> op, args |-> args, out |-> out]

Init ==
  /\ overflow_checks \in BOOLEAN
  /\ pc = "idle"
  /\ op = "none"
  /\ args = <<>>
  /\ out = <<>>
  /\ prev = NoCall

\* find_kmers(&sequence, &kmer, circular)
CallFindKmers ==
  /\ pc = "idle"
  /\ \E sequence \in Haystacks, kmer \in Kmers, circular \in BOOLEAN :
       /\ args' = [sequence |-> sequence, kmer |-> kmer, circular |-> circular]
       /\ out' = find_kmers(sequence, kmer, circular, overflow_checks)
  /\ op' = "find_kmers"
  /\ pc' = "done"
  /\ prev' = NoCall
  /\ UNCHANGED overflow_checks

\* After a linear search that returned: the circular search of the same k-mer
\* in the same sequence.
CallFindKmersCircular ==
  /\ pc = "done"
  /\ op = "find_kmers"
  /\ ~args.circular
  /\ out.tag = "Return"
  /\ args' = [args EXCEPT !.circular = TRUE]
  /\ out' = find_kmers(args.sequence, args.kmer, TRUE, overflow_checks)
  /\ prev' = ThisCall
  /\ UNCHANGED <<overflow_checks, pc, op>>

\* self.subsequence_as_u64(start, length)
CallSubsequenceAsU64 ==
  /\ pc = "idle"
  /\ \E self \in Sequences, start \in Starts, length \in Lengths :
       /\ args' = [self |-> self, start |-> start, length |-> length]
       /\ out' = subsequence_as_u64(self, start, length, overflow_checks)
  /\ op' = "subsequence_as_u64"
  /\ pc' = "done"
  /\ prev' = NoCall
  /\ UNCHANGED overflow_checks

\* Sequence::from_u64(num, length)
CallFromU64 ==
  /\ pc = "idle"
  /\ \E num \in Words, length \in Lengths8 :
       /\ args' = [num |-> num, length |-> length]
       /\ out' = from_u64(num, length, overflow_checks)
  /\ op' = "from_u64"
  /\ pc' = "done"
  /\ prev' = NoCall
  /\ UNCHANGED overflow_checks

\* After a packing that returned Some(word): Sequence::from_u64(word, length)
\* with the length that was packed (at most 32, so it fits the u8).
CallFromU64OfPacked ==
  /\ pc = "done"
  /\ op = "subsequence_as_u64"
  /\ out.tag = "Return"
  /\ out.value # None
  /\ args' = [num |-> out.value[1], length |-> args.length]
  /\ out' = from_u64(out.value[1], args.length, overflow_checks)
  /\ op' = "from_u64"
  /\ prev' = ThisCall
  /\ UNCHANGED <<overflow_checks, pc>>

\* self.count_bases()
CallCountBases ==
  /\ pc = "idle"
  /\ \E self \in Sequences :
       /\ args' = [self |-> self]
       /\ out' = count_bases(self)
  /\ op' = "count_bases"
  /\ pc' = "done"
  /\ prev' = NoCall
  /\ UNCHANGED overflow_checks

\* self.reverse_complement()
CallReverseComplement ==
  /\ pc = "idle"
  /\ \E self \in Sequences :
       /\ args' = [self |-> self]
       /\ out' = reverse_complement(self)
  /\ op' = "reverse_complement"
  /\ pc' = "done"
  /\ prev' = NoCall
  /\ UNCHANGED overflow_checks

\* After a reverse_complement: reverse_complement of its result.
CallReverseComplementAgain ==
  /\ pc = "done"
  /\ op = "reverse_complement"
  /\ prev = NoCall
  /\ out.tag = "Return"
  /\ args' = [self |-> out.value]
  /\ out' = reverse_complement(out.value)
  /\ prev' = ThisCall
  /\ UNCHANGED <<overflow_checks, pc, op>>

\* The caller drops the result and is ready for the next call.
Finish ==
  /\ pc = "done"
  /\ pc' = "idle"
  /\ op' = "none"
  /\ args' = <<>>
  /\ out' = <<>>
  /\ prev' = NoCall
  /\ UNCHANGED overflow_checks

Next ==
  \/ CallFindKmers
  \/ CallFindKmersCircular
  \/ CallSubsequenceAsU64
  \/ CallFromU64
  \/ CallFromU64OfPacked
  \/ CallCountBases
  \/ CallReverseComplement
  \/ CallReverseComplementAgain
  \/ Finish

Spec == Init /\ [][Next]_vars

\* ------------------------------------------------------ claims: find_kmers

\* The pattern p occurs in the haystack h at offset i, read circularly.
MatchesAt(h, p, i) ==
  \A j \in 0..(Len(p) - 1) : h[((i + j) % Len(h)) + 1] = p[j + 1]

\* The offsets a mode scans.
ModeRange(h, p, circular) ==
  IF circular THEN 0..(Len(h) - 1) ELSE 0..(Len(h) - Len(p))

StrictlyIncreasing(s) == \A k \in 1..(Len(s) - 1) : s[k] < s[k + 1]

Elements(s) == {s[k] : k \in 1..Len(s)}

\* The sequence 0, 1, ..., n - 1.
Iota(n) == [k \in 1..n |-> k - 1]

FindKmersDone == pc = "done" /\ op = "find_kmers"

\* C1: for every haystack, pattern and mode, find_kmers returns, strictly
\* increasing, exactly the offsets of the mode's range at which the pattern
\* matches the haystack read circularly.
C1_FindKmersExact ==
  FindKmersDone =>
    /\ out.tag = "Return"
    /\ StrictlyIncreasing(out.value)
    /\ Elements(out.value) =
         {i \in ModeRange(args.sequence, args.kmer, args.circular) :
            MatchesAt(args.sequence, args.kmer, i)}

\* C2: in linear mode a pattern longer than the haystack gives the empty
\* result, and the call does not abort.
C2_LongPatternLinearEmpty ==
  (FindKmersDone /\ ~args.circular /\ Len(args.kmer) > Len(args.sequence)) =>
    out = Return(<<>>)

\* C9: for the empty pattern find_kmers returns every offset of the mode and
\* nothing else: 0..len in linear mode, 0..len-1 in circular mode; it does not
\* abort.
C9_EmptyPattern ==
  (FindKmersDone /\ args.kmer = <<>>) =>
    out = Return(IF args.circular THEN Iota(Len(args.sequence))
                                  ELSE Iota(Len(args.sequence) + 1))

\* C9 witness: the empty pattern searched linearly in a non-empty haystack, the
\* offset len being reported.
C9_Witness ==
  /\ FindKmersDone
  /\ args.kmer = <<>>
  /\ ~args.circular
  /\ Len(args.sequence) = 2
  /\ out = Return(<<0, 1, 2>>)

\* C10: for 1 <= pattern.length <= haystack.length the linear result is the
\* prefix of the circular result made of the offsets <= len - klen, and every
\* further circular offset is > len - klen.
C10_LinearIsPrefixOfCircular ==
  (/\ FindKmersDone
   /\ args.circular
   /\ prev.op = "find_kmers"
   /\ 1 <= Len(args.kmer)
   /\ Len(args.kmer) <= Len(args.sequence)) =>
    /\ out.tag = "Return"
    /\ prev.out.tag = "Return"
    /\ LET linear == prev.out.value
           circ == out.value
           last == Len(args.sequence) - Len(args.kmer)
       IN  /\ Len(linear) <= Len(circ)
           /\ linear = SubSeq(circ, 1, Len(linear))
           /\ \A k \in 1..Len(linear) : circ[k] <= last
           /\ \A k \in (Len(linear) + 1)..Len(circ) : circ[k] > last

\* C10 witness: a circular search that reports the linear offsets and then one
\* that straddles the end of the haystack.
C10_Witness ==
  /\ FindKmersDone
  /\ args.circular
  /\ prev.op = "find_kmers"
  /\ args.sequence = TestSequence
  /\ args.kmer = TestKmer
  /\ prev.out = Return(<<5, 10>>)
  /\ out = Return(<<5, 10, 17>>)

\* ------------------------------------------------- claims: the packing codec

\* The base with the 2-bit code c.
BaseOfCode(c) == CHOOSE b \in Base : BaseAsCode(b) = c

\* The k-th 2-bit field of the word w, counted from the most significant end
\* (k = 0 is bits 63 and 62).
FieldOf(w, k) == 2 * w[2 * k + 1] + w[2 * k + 2]

PackDone == pc = "done" /\ op = "subsequence_as_u64"
UnpackDone == pc = "done" /\ op = "from_u64"

\* C3: subsequence_as_u64 never panics, whatever the sequence, start and
\* length; an out-of-range request returns None.
C3_PackNeverPanics ==
  PackDone =>
    /\ out.tag = "Return"
    /\ (args.length > MaxBases \/ args.start + args.length > Len(args.self)) =>
         out.value = None

\* C4: subsequence_as_u64 returns None when length > 32 or start + length >
\* len, and otherwise Some(word) where the base at start + k is the k-th field
\* from the top and every bit below the 2 * length top bits is zero (the zero
\* word for length 0).
C4_PackLayout ==
  PackDone =>
    IF args.length > MaxBases \/ args.start + args.length > Len(args.self)
      THEN out = Return(None)
      ELSE /\ out.tag = "Return"
           /\ out.value # None
           /\ LET w == out.value[1]
              IN  /\ \A k \in 0..(args.length - 1) :
                       FieldOf(w, k) = BaseAsCode(args.self[args.start + k + 1])
                  /\ \A b \in (2 * args.length + 1)..WordBits : w[b] = 0
                  /\ args.length = 0 => w = ZeroWord

\* The call packed a whole sequence of at most 32 bases.
PackedWhole(c) ==
  /\ c.op = "subsequence_as_u64"
  /\ c.args.start = 0
  /\ c.args.length = Len(c.args.self)
  /\ Len(c.args.self) <= MaxBases

\* C5: round trip: packing a whole sequence of at most 32 bases returns a
\* word, and unpacking that word with the same length gives the sequence back.
C5_RoundTrip ==
  /\ (pc = "done" /\ PackedWhole(ThisCall)) =>
       (out.tag = "Return" /\ out.value # None)
  /\ (UnpackDone /\ PackedWhole(prev)) => out = Return(prev.args.self)

\* C5 witness: a sequence of exactly 32 bases, not all equal, came back from
\* the round trip.
C5_Witness ==
  /\ UnpackDone
  /\ PackedWhole(prev)
  /\ Len(prev.args.self) = MaxBases
  /\ prev.args.self[1] # prev.args.self[2]
  /\ out = Return(prev.args.self)

\* C6: from_u64 returns exactly min(length, 32) bases, the k-th being the base
\* coded by the k-th field from the top of the word; no conversion fails and
\* no shift overflows.
C6_UnpackFields ==
  UnpackDone =>
    /\ out.tag = "Return"
    /\ Len(out.value) = Min(args.length, MaxBases)
    /\ \A k \in 0..(Len(out.value) - 1) :
         out.value[k + 1] = BaseOfCode(FieldOf(args.num, k))

\* C6 witness: a requested length above 32 was clamped, on a word whose low
\* fields are not zero.
C6_Witness ==
  /\ UnpackDone
  /\ prev = NoCall
  /\ args.length > MaxBases
  /\ out.tag = "Return"
  /\ Len(out.value) = MaxBases
  /\ out.value[MaxBases] = "G"
  /\ out.value[1] = "T"

\* ------------------------------------- claims: reverse_complement, count_bases

\* C7: the result of reverse_complement has the length of s and its base at
\* position i is complement(s[length - 1 - i]); applied twice it gives s back.
C7_ReverseComplementInvolution ==
  (pc = "done" /\ op = "reverse_complement") =>
    /\ out.tag = "Return"
    /\ Len(out.value) = Len(args.self)
    /\ \A i \in 0..(Len(args.self) - 1) :
         out.value[i + 1] = complement(args.self[(Len(args.self) - 1 - i) + 1])
    /\ prev # NoCall => out.value = prev.args.self

\* C7 witness: the second application gave back a sequence that is not its own
\* reverse complement.
C7_Witness ==
  /\ pc = "done"
  /\ op = "reverse_complement"
  /\ prev # NoCall
  /\ prev.args.self = TestSequence
  /\ out.value = TestSequence
  /\ args.self # TestSequence

\* The number of positions of s holding the base b.
Occurrences(s, b) == Cardinality({k \in 1..Len(s) : s[k] = b})

\* C8: each counter of count_bases is the number of positions holding that
\* base, and the four counters sum to the length of the sequence.
C8_CountsSumToLength ==
  (pc = "done" /\ op = "count_bases") =>
    /\ out.tag = "Return"
    /\ out.value.A = Occurrences(args.self, "A")
    /\ out.value.C = Occurrences(args.self, "C")
    /\ out.value.G = Occurrences(args.self, "G")
    /\ out.value.T = Occurrences(args.self, "T")
    /\ out.value.A + out.value.C + out.value.G + out.value.T = Len(args.self)

\* C8 witness: the counters of the sequence of the tests.
C8_Witness ==
  /\ pc = "done"
  /\ op = "count_bases"
  /\ args.self = TestSequence
  /\ out = Return([A |-> 5, C |-> 4, G |-> 4, T |-> 6])

====
